---- MODULE Spec2Model ----
(***************************************************************************)
(* ensureconda: locating, version-checking and installing a conda-like     *)
(* executable.  The module models                                          *)
(*   - the version probers and ensureconda() of api.py, one step per       *)
(*     subprocess probe / installer call, and the two-pass driver of       *)
(*     cli.py                                    (specification Spec);     *)
(*   - new_executable() of installer.py run by several processes on one    *)
(*     destination path                (specifications InstSpec, InstLive); *)
(*   - install_micromamba() and install_conda_exe() of installer.py inside *)
(*     an ensureconda() call, one step per request, sleep, selection,      *)
(*     download and file operation             (specification NetSpec);    *)
(*   - the file install_conda_exe() chooses from a registry listing, for   *)
(*     every listing                           (specification SelSpec).    *)
(***************************************************************************)
EXTENDS Naturals, Integers, Sequences, FiniteSets, TLC

VARIABLES
    executables,  \* per tool kind, the sequence of candidates the resolver yields
    cli,          \* TRUE when ensureconda() is driven by ensureconda_cli
    cli_flags,    \* the options ensureconda_cli was started with
    args,         \* keyword arguments of the current ensureconda() call
    pass,         \* number of the current ensureconda() call (1 or 2)
    pc,           \* position inside ensureconda() / ensureconda_cli
    idx,          \* position in the candidate sequence of the current kind
    maybe_exe,    \* what the installer left behind: the new binary's behaviour
    probes,       \* log: every constraint evaluation made so far
    installs,     \* log: every installer invocation made so far
    result,       \* value returned by the last ensureconda() call that returned
    error,        \* exception that ended the run ("none" if none)
    exit_code,    \* exit status of the CLI process (-1 while running)
    lock,         \* holder of the FileLock on "<target>.lock" (0: free)
    acquired,     \* log: the processes in the order they acquired the lock
    ipc,          \* per installer process: position inside new_executable
    temp,         \* per installer process: its temporary file
    is_windows,   \* the platform of the installers (resolve.is_windows)
    target,       \* the file at the destination path
    fpc,          \* position inside install_micromamba / install_conda_exe
    url,          \* the URL the installer is fetching
    attempt,      \* request_url_with_retry: the loop variable i
    net,          \* log: every request, sleep and package download made
    listing,      \* install_conda_exe: resp.json(), the registry listing
    subdir,       \* the host's platform_subdir()
    chosen        \* install_conda_exe: the record chosen from the listing

vars == <<executables, cli, cli_flags, args, pass, pc, idx, maybe_exe, probes,
          installs, result, error, exit_code, lock, acquired, ipc, temp, is_windows, target,
          fpc, url, attempt, net, listing, subdir, chosen>>

apiVars == <<executables, cli, cli_flags, args, pass, pc, idx, maybe_exe, probes,
             installs, result, error, exit_code>>

instVars == <<lock, acquired, ipc, temp, is_windows, target>>

netVars == <<fpc, url, attempt, net, listing, subdir, chosen>>

----------------------------------------------------------------------------
(* Bounds of the model *)

\* total number of candidate executables present on the host
MaxExes == 2
\* number of installer processes competing for one destination
NumProcs == 2
\* number of write() chunks the payload of one executable takes
PayloadLen == 2
\* number of files in a registry listing
MaxRecords == 3

----------------------------------------------------------------------------
(* Versions: packaging.version.Version *)

\* "no minimum configured" (Optional[Version] = None)
NoVersion == << >>

\* Version(s) for the version strings that occur; every other token is not a
\* valid version and makes Version() raise InvalidVersion
VersionTable ==
    [s \in {"0.0.0", "1.4.7", "2.0.0", "2.0.8", "4.8.1", "4.8.2", "23.5.0"} |->
        CASE s = "0.0.0"  -> <<0, 0, 0>>
          [] s = "1.4.7"  -> <<1, 4, 7>>
          [] s = "2.0.0"  -> <<2, 0, 0>>
          [] s = "2.0.8"  -> <<2, 0, 8>>
          [] s = "4.8.1"  -> <<4, 8, 1>>
          [] s = "4.8.2"  -> <<4, 8, 2>>
          [] s = "23.5.0" -> <<23, 5, 0>>]

IsValidVersion(token) == token \in DOMAIN VersionTable

\* the zero-version sentinel Version("0.0.0")
ZeroVersion == VersionTable["0.0.0"]

\* v >= w on release tuples, compared component by component
VersionGE(v, w) ==
    \/ v[1] > w[1]
    \/ v[1] = w[1] /\ v[2] > w[2]
    \/ v[1] = w[1] /\ v[2] = w[2] /\ v[3] >= w[3]

----------------------------------------------------------------------------
(* `exe --version`: what a candidate prints.  A candidate is a record        *)
(* [path, rc, out]: whether the resolver yielded a path (and not None), the *)
(* exit status of the executable and its output after strip().splitlines(), *)
(* each line given as line.split().                                         *)

OutMambaV1 == << <<"mamba", "1.4.7">>, <<"conda", "23.5.0">> >>
OutV2      == << <<"2.0.8">> >>
OutCondaOld == << <<"conda", "4.8.1">> >>
OutEmpty   == << >>
OutBadToken == << <<"conda", "unknown">> >>

Outputs == {OutMambaV1, OutV2, OutCondaOld, OutEmpty, OutBadToken}

\* the executables that may be found on the host or produced by an installer
Exes == [path : {TRUE}, rc : {0}, out : Outputs]
            \cup [path : {TRUE}, rc : {1}, out : {OutEmpty}]

\* what a resolver may yield: an executable, or None
Candidates == Exes \cup [path : {FALSE}, rc : {1}, out : {OutEmpty}]

\* str.startswith on the first word of a line
StartsWith(line, prefix) == Len(line) > 0 /\ line[1] = prefix

\* line.split()[-1]
LastToken(line) == line[Len(line)]

\* result of a prober: the exception it raised ("none" if it returned), the
\* version it returned and the number of subprocesses it started
Probe(exc, version, runs) == [exc |-> exc, version |-> version, runs |-> runs]

\* Version(token)
ParseToken(token, runs) ==
    IF IsValidVersion(token)
    THEN Probe("none", VersionTable[token], runs)
    ELSE Probe("InvalidVersion", ZeroVersion, runs)

\* the first line of out that starts with prefix (0 if there is none)
FirstLineWith(out, prefix) ==
    IF \E i \in 1..Len(out) : StartsWith(out[i], prefix)
    THEN CHOOSE i \in 1..Len(out) :
            /\ StartsWith(out[i], prefix)
            /\ \A j \in 1..(i - 1) : ~StartsWith(out[j], prefix)
    ELSE 0

determine_micromamba_version(exe, runs) ==
    IF exe.rc # 0 THEN Probe("CalledProcessError", ZeroVersion, runs + 1)
    ELSE IF Len(exe.out) > 0 THEN ParseToken(LastToken(exe.out[1]), runs + 1)
    ELSE Probe("none", ZeroVersion, runs + 1)

determine_mamba_version(exe, runs) ==
    IF exe.rc # 0 THEN Probe("CalledProcessError", ZeroVersion, runs + 1)
    ELSE LET i == FirstLineWith(exe.out, "mamba") IN
         IF i # 0 THEN ParseToken(LastToken(exe.out[i]), runs + 1)
         ELSE determine_micromamba_version(exe, runs + 1)

determine_conda_version(exe, runs) ==
    IF exe.rc # 0 THEN Probe("CalledProcessError", ZeroVersion, runs + 1)
    ELSE LET i == FirstLineWith(exe.out, "conda") IN
         IF i # 0 THEN ParseToken(LastToken(exe.out[i]), runs + 1)
         ELSE Probe("none", ZeroVersion, runs + 1)

----------------------------------------------------------------------------
(* ensureconda(): api.py *)

Kinds == {"mamba", "micromamba", "conda", "conda_exe"}

\* maybe_exe before any installer has run
NoBinary == [path |-> FALSE, rc |-> 1, out |-> OutEmpty]

\* the value None of Optional[StrPath]
NoExe == [kind |-> "none", idx |-> 0]

\* a path: candidate number idx of the resolver of kind, idx = 0 being the
\* file the installer of that kind writes
Path(kind, i) == [kind |-> kind, idx |-> i]

\* the prober bound to each kind by the partial() applications
version_fn(kind, exe) ==
    CASE kind = "mamba"      -> determine_mamba_version(exe, 0)
      [] kind = "micromamba" -> determine_micromamba_version(exe, 0)
      [] OTHER               -> determine_conda_version(exe, 0)

\* the minimum bound to each kind by the partial() applications
min_version(a, kind) ==
    IF kind \in {"mamba", "micromamba"} THEN a.min_mamba_version
    ELSE a.min_conda_version

\* the outcome of one constraint evaluation: exception raised, truth value
\* returned, version probed, subprocesses started
Met(exc, met, version, runs) ==
    [exc |-> exc, met |-> met, version |-> version, runs |-> runs]

\* version_constraint_met with the comparison turned round
version_constraint_met_flipped(exe, minv, kind) ==
    IF minv = NoVersion THEN Met("none", TRUE, ZeroVersion, 0)
    ELSE LET p == version_fn(kind, exe) IN
         IF p.exc # "none" THEN Met(p.exc, FALSE, p.version, p.runs)
         ELSE Met("none", VersionGE(minv, p.version), p.version, p.runs)

\* version_constraint_met that probes before it looks at the minimum
version_constraint_met_probing(exe, minv, kind) ==
    LET p == version_fn(kind, exe) IN
    IF p.exc # "none" THEN Met(p.exc, FALSE, p.version, p.runs)
    ELSE Met("none", minv = NoVersion \/ VersionGE(p.version, minv), p.version, p.runs)

version_constraint_met(exe, minv, kind) ==
    IF minv = NoVersion THEN Met("none", TRUE, ZeroVersion, 0)
    ELSE LET p == version_fn(kind, exe) IN
         IF p.exc # "none" THEN Met(p.exc, FALSE, p.version, p.runs)
         ELSE Met("none", VersionGE(p.version, minv), p.version, p.runs)

\* install_permitted that ignores no_install
install_permitted_always(a) == TRUE

\* `if not no_install:`: whether the installer of an installable kind is run
install_permitted(a) == ~a.no_install

\* Control flow of ensureconda() between two steps: the place reached when
\* control arrives at candidate i of the loop of `stage`.  Stages follow the
\* text of the function; a disabled kind is skipped, an exhausted loop falls
\* through to the installer of its kind (if any, and if permitted) or to the
\* next kind, and the end of the function is "return_none".
RECURSIVE Reach(_, _, _, _)
Reach(a, ex, stage, i) ==
    CASE stage = "mamba" ->
            IF a.mamba /\ i <= Len(ex["mamba"]) THEN <<"mamba", i>>
            ELSE Reach(a, ex, "micromamba", 1)
      [] stage = "micromamba" ->
            IF a.micromamba /\ i <= Len(ex["micromamba"]) THEN <<"micromamba", i>>
            ELSE IF a.micromamba /\ install_permitted(a) THEN <<"install_micromamba", 0>>
            ELSE Reach(a, ex, "conda", 1)
      [] stage = "conda" ->
            IF a.conda /\ i <= Len(ex["conda"]) THEN <<"conda", i>>
            ELSE Reach(a, ex, "conda_exe", 1)
      [] stage = "conda_exe" ->
            IF a.conda_exe /\ i <= Len(ex["conda_exe"]) THEN <<"conda_exe", i>>
            ELSE IF a.conda_exe /\ install_permitted(a) THEN <<"install_conda_exe", 0>>
            ELSE <<"return_none", 0>>

\* where the function goes after the re-check of a freshly installed binary
\* of `kind` has failed
AfterInstall(a, ex, kind) ==
    IF kind = "micromamba" THEN Reach(a, ex, "conda", 1) ELSE <<"return_none", 0>>

\* an uncaught exception ends the CLI process with a traceback and status 1
Uncaught(exc) ==
    /\ error' = exc
    /\ pc' = "raised"
    /\ exit_code' = IF cli THEN 1 ELSE exit_code

ProbeEntry(kind, i, m) ==
    [pass |-> pass, kind |-> kind, idx |-> i, exc |-> m.exc, met |-> m.met,
     version |-> m.version, runs |-> m.runs]

\* `if exe and constraints_met(exe): return exe` for the next candidate of a
\* resolver loop
CheckCandidate ==
    /\ pc \in Kinds
    /\ LET exe == executables[pc][idx]
           m == version_constraint_met(exe, min_version(args, pc), pc)
       IN /\ probes' = IF exe.path THEN Append(probes, ProbeEntry(pc, idx, m))
                       ELSE probes
          /\ IF exe.path /\ m.exc # "none"
             THEN Uncaught(m.exc) /\ UNCHANGED <<idx, result>>
             ELSE IF exe.path /\ m.met
             THEN /\ result' = Path(pc, idx)
                  /\ pc' = "returned"
                  /\ UNCHANGED <<idx, error, exit_code>>
             ELSE /\ pc' = Reach(args, executables, pc, idx + 1)[1]
                  /\ idx' = Reach(args, executables, pc, idx + 1)[2]
                  /\ UNCHANGED <<result, error, exit_code>>
    /\ UNCHANGED <<executables, cli, cli_flags, args, pass, maybe_exe, installs>>
    /\ UNCHANGED <<instVars, netVars>>

\* install_micromamba(): the exception it ends with ("none": it returns the
\* path it wrote).  fetch is the outcome of request_url_with_retry, member what
\* the tarball holds at the fixed internal path.
install_micromamba(fetch, member) ==
    IF fetch # "ok" THEN fetch
    ELSE IF member = "absent" THEN "KeyError"
    ELSE IF member = "notfile" THEN "RuntimeError"
    ELSE "none"

\* install_conda_exe(): the exception it ends with ("none": it returns the
\* path it wrote).  fetch is the outcome of request_url_with_retry on the
\* listing, has_record whether the listing has a record of the host subdir,
\* member what the package holds at standalone_conda/conda.exe.
install_conda_exe(fetch, has_record, member) ==
    IF fetch # "ok" THEN fetch
    ELSE IF ~has_record THEN "RuntimeError"
    ELSE IF member # "file" THEN "RuntimeError"
    ELSE "none"

\* outcomes of request_url_with_retry: a response, or the exception raised
FetchOutcomes == {"ok", "HTTPError", "TimeoutError"}
Members == {"file", "notfile", "absent"}

InstallEntry(kind, exc) ==
    [pass |-> pass, kind |-> kind, exc |-> exc, no_install |-> args.no_install]

\* `maybe_exe = install_micromamba()`
InstallMicromamba ==
    /\ pc = "install_micromamba"
    /\ \E fetch \in FetchOutcomes, member \in Members, exe \in Exes :
         LET exc == install_micromamba(fetch, member) IN
         /\ installs' = Append(installs, InstallEntry("micromamba", exc))
         /\ IF exc # "none"
            THEN Uncaught(exc) /\ UNCHANGED maybe_exe
            ELSE /\ maybe_exe' = exe
                 /\ pc' = "recheck_micromamba"
                 /\ UNCHANGED <<error, exit_code>>
    /\ UNCHANGED <<executables, cli, cli_flags, args, pass, idx, probes, result>>
    /\ UNCHANGED <<instVars, netVars>>

\* `maybe_exe = install_conda_exe()`
InstallCondaExe ==
    /\ pc = "install_conda_exe"
    /\ \E fetch \in FetchOutcomes, has_record \in BOOLEAN, member \in Members,
          exe \in Exes :
         LET exc == install_conda_exe(fetch, has_record, member) IN
         /\ installs' = Append(installs, InstallEntry("conda_exe", exc))
         /\ IF exc # "none"
            THEN Uncaught(exc) /\ UNCHANGED maybe_exe
            ELSE /\ maybe_exe' = exe
                 /\ pc' = "recheck_conda_exe"
                 /\ UNCHANGED <<error, exit_code>>
    /\ UNCHANGED <<executables, cli, cli_flags, args, pass, idx, probes, result>>
    /\ UNCHANGED <<instVars, netVars>>

\* `if maybe_exe is not None and constraints_met(maybe_exe): return maybe_exe`
RecheckInstalled ==
    /\ pc \in {"recheck_micromamba", "recheck_conda_exe"}
    /\ LET kind == IF pc = "recheck_micromamba" THEN "micromamba" ELSE "conda_exe"
           m == version_constraint_met(maybe_exe, min_version(args, kind), kind)
       IN /\ probes' = Append(probes, ProbeEntry(kind, 0, m))
          /\ IF m.exc # "none"
             THEN Uncaught(m.exc) /\ UNCHANGED <<idx, result>>
             ELSE IF m.met
             THEN /\ result' = Path(kind, 0)
                  /\ pc' = "returned"
                  /\ UNCHANGED <<idx, error, exit_code>>
             ELSE /\ pc' = AfterInstall(args, executables, kind)[1]
                  /\ idx' = AfterInstall(args, executables, kind)[2]
                  /\ UNCHANGED <<result, error, exit_code>>
    /\ UNCHANGED <<executables, cli, cli_flags, args, pass, maybe_exe, installs>>
    /\ UNCHANGED <<instVars, netVars>>

\* `return None` at the end of ensureconda()
ReturnNone ==
    /\ pc = "return_none"
    /\ result' = NoExe
    /\ pc' = "returned"
    /\ UNCHANGED <<executables, cli, cli_flags, args, pass, idx, maybe_exe,
                   probes, installs, error, exit_code>>
    /\ UNCHANGED <<instVars, netVars>>

----------------------------------------------------------------------------
(* ensureconda_cli(): cli.py *)

\* the arguments of the first call: the options, with no_install=True
FirstPassArgs(flags) == [flags EXCEPT !.no_install = TRUE]

\* the arguments of the second call: the options, with no_install=False
SecondPassArgs(flags) == [flags EXCEPT !.no_install = FALSE]

\* `if not exe and not no_install:` after the first call
second_pass_wanted(exe, flags) == exe = NoExe /\ ~flags.no_install

\* the second call of ensureconda()
CliSecondPass ==
    /\ cli /\ pc = "returned" /\ pass = 1
    /\ second_pass_wanted(result, cli_flags)
    /\ pass' = 2
    /\ args' = SecondPassArgs(cli_flags)
    /\ pc' = Reach(args', executables, "mamba", 1)[1]
    /\ idx' = Reach(args', executables, "mamba", 1)[2]
    /\ UNCHANGED <<executables, cli, cli_flags, maybe_exe, probes, installs,
                   result, error, exit_code>>
    /\ UNCHANGED <<instVars, netVars>>

\* `if exe: ... sys.exit(0) else: ... sys.exit(1)`
CliExit ==
    /\ cli /\ pc = "returned"
    /\ ~(pass = 1 /\ second_pass_wanted(result, cli_flags))
    /\ exit_code' = IF result # NoExe THEN 0 ELSE 1
    /\ pc' = "exited"
    /\ UNCHANGED <<executables, cli, cli_flags, args, pass, idx, maybe_exe,
                   probes, installs, result, error>>
    /\ UNCHANGED <<instVars, netVars>>

----------------------------------------------------------------------------
(* new_executable(): installer.py, run by the processes Procs on one target *)

Procs == 1..NumProcs

\* a path that holds no file
NoFile == [exists |-> FALSE, data |-> << >>, x |-> FALSE, open |-> FALSE]

\* the complete content of the executable that installer p extracted
Payload(p) == [i \in 1..PayloadLen |-> p]

\* the executable an earlier, finished installation left at the destination
OldFile == [exists |-> TRUE, data |-> Payload(0), x |-> TRUE, open |-> FALSE]

\* positions at which a process is between acquiring and releasing the lock
InSection == {"locked", "opened", "closed", "chmodded", "renamed", "raising"}

InstIdle ==
    /\ lock = 0
    /\ acquired = << >>
    /\ ipc = [p \in Procs |-> "idle"]
    /\ temp = [p \in Procs |-> NoFile]
    /\ is_windows = FALSE
    /\ target = NoFile

\* Acquire that does not wait for the lock to be free
Acquire_unguarded(p) ==
    /\ ipc[p] = "idle"
    /\ lock' = p
    /\ acquired' = Append(acquired, p)
    /\ ipc' = [ipc EXCEPT ![p] = "locked"]
    /\ UNCHANGED <<temp, is_windows, target>>
    /\ UNCHANGED <<apiVars, netVars>>

\* `with filelock.FileLock(f"{target_filename}.lock"):` blocks until the lock
\* is free
Acquire(p) ==
    /\ ipc[p] = "idle"
    /\ lock = 0
    /\ lock' = p
    /\ acquired' = Append(acquired, p)
    /\ ipc' = [ipc EXCEPT ![p] = "locked"]
    /\ UNCHANGED <<temp, is_windows, target>>
    /\ UNCHANGED <<apiVars, netVars>>

\* `temp_filename = target_filename.with_name(uuid.uuid4().hex)` and
\* `open(temp_filename, "wb")`: a new, empty file of this process alone
OpenTemp(p) ==
    /\ ipc[p] = "locked"
    /\ temp' = [temp EXCEPT ![p] =
                   [exists |-> TRUE, data |-> << >>, x |-> FALSE, open |-> TRUE]]
    /\ ipc' = [ipc EXCEPT ![p] = "opened"]
    /\ UNCHANGED <<lock, acquired, is_windows, target>>
    /\ UNCHANGED <<apiVars, netVars>>

\* WriteChunk on a file opened at the destination path itself
WriteChunk_in_place(p) ==
    /\ ipc[p] = "opened"
    /\ Len(temp[p].data) < PayloadLen
    /\ temp' = [temp EXCEPT ![p].data = Append(@, p)]
    /\ target' = temp'[p]
    /\ UNCHANGED <<lock, acquired, ipc, is_windows>>
    /\ UNCHANGED <<apiVars, netVars>>

\* `exe_fo.write(fo.read())`: the content reaches the file piece by piece
WriteChunk(p) ==
    /\ ipc[p] = "opened"
    /\ Len(temp[p].data) < PayloadLen
    /\ temp' = [temp EXCEPT ![p].data = Append(@, p)]
    /\ UNCHANGED <<lock, acquired, ipc, is_windows, target>>
    /\ UNCHANGED <<apiVars, netVars>>

\* Raise with the rename done on the way out, as in a `finally:` clause
Raise_then_rename(p) ==
    /\ ipc[p] = "opened"
    /\ temp' = [temp EXCEPT ![p] = NoFile]
    /\ target' = [temp[p] EXCEPT !.open = FALSE]
    /\ ipc' = [ipc EXCEPT ![p] = "raising"]
    /\ UNCHANGED <<lock, acquired, is_windows>>
    /\ UNCHANGED <<apiVars, netVars>>

\* fo.read() or exe_fo.write() raises: the exception is thrown into the
\* generator at `yield fo`, the file is closed, chmod and rename are skipped
Raise(p) ==
    /\ ipc[p] = "opened"
    /\ temp' = [temp EXCEPT ![p].open = FALSE]
    /\ ipc' = [ipc EXCEPT ![p] = "raising"]
    /\ UNCHANGED <<lock, acquired, is_windows, target>>
    /\ UNCHANGED <<apiVars, netVars>>

\* leaving `with open(...) as fo:` normally closes the file
CloseTemp(p) ==
    /\ ipc[p] = "opened"
    /\ Len(temp[p].data) = PayloadLen
    /\ temp' = [temp EXCEPT ![p].open = FALSE]
    /\ ipc' = [ipc EXCEPT ![p] = "closed"]
    /\ UNCHANGED <<lock, acquired, is_windows, target>>
    /\ UNCHANGED <<apiVars, netVars>>

\* `os.chmod(temp_filename, st.st_mode | stat.S_IXUSR)`
Chmod(p) ==
    /\ ipc[p] = "closed"
    /\ temp' = [temp EXCEPT ![p].x = TRUE]
    /\ ipc' = [ipc EXCEPT ![p] = "chmodded"]
    /\ UNCHANGED <<lock, acquired, is_windows, target>>
    /\ UNCHANGED <<apiVars, netVars>>

\* `os.rename(temp_filename, target_filename)` where the destination exists
\* on Windows: FileExistsError, nothing is renamed
RenameFails(p) ==
    /\ ipc[p] = "chmodded"
    /\ is_windows /\ target.exists
    /\ ipc' = [ipc EXCEPT ![p] = "raising"]
    /\ UNCHANGED <<lock, acquired, temp, is_windows, target>>
    /\ UNCHANGED <<apiVars, netVars>>

\* `os.rename(temp_filename, target_filename)`: replaces the destination
\* (POSIX), or creates it
Rename(p) ==
    /\ ipc[p] = "chmodded"
    /\ ~(is_windows /\ target.exists)
    /\ target' = temp[p]
    /\ temp' = [temp EXCEPT ![p] = NoFile]
    /\ ipc' = [ipc EXCEPT ![p] = "renamed"]
    /\ UNCHANGED <<lock, acquired, is_windows>>
    /\ UNCHANGED <<apiVars, netVars>>

\* Release that is reached only when the body ended normally
Release_on_success_only(p) ==
    /\ ipc[p] = "renamed"
    /\ lock' = 0
    /\ ipc' = [ipc EXCEPT ![p] = "done"]
    /\ UNCHANGED <<acquired, temp, is_windows, target>>
    /\ UNCHANGED <<apiVars, netVars>>

\* leaving `with filelock.FileLock(...)`, normally or by an exception
Release(p) ==
    /\ ipc[p] \in {"renamed", "raising"}
    /\ lock' = 0
    /\ ipc' = [ipc EXCEPT ![p] = IF ipc[p] = "renamed" THEN "done" ELSE "failed"]
    /\ UNCHANGED <<acquired, temp, is_windows, target>>
    /\ UNCHANGED <<apiVars, netVars>>

\* one step of installer process p
ProcStep(p) ==
    \/ Acquire(p)
    \/ OpenTemp(p)
    \/ WriteChunk(p)
    \/ Raise(p)
    \/ CloseTemp(p)
    \/ Chmod(p)
    \/ RenameFails(p)
    \/ Rename(p)
    \/ Release(p)

----------------------------------------------------------------------------
(* install_micromamba() and install_conda_exe() step by step: installer.py *)

\* `n = 10`: the number of tries of request_url_with_retry
n == 10

\* the status codes the endpoints answer with
Statuses == {200, 404, 500, 503}

\* resp.raise_for_status() raises HTTPError for a 4xx or 5xx status
raise_for_status(status) == status >= 400

\* is_transient that takes every server error for a transient one
is_transient_5xx(status) == status >= 500

\* is_transient that retries on 503 Service Unavailable instead of 500
is_transient_503(status) == status = 503

\* `if e.response.status_code == 500:`
is_transient(status) == status = 500

\* more_tries with one try too many
more_tries_inclusive(k) == k <= n

\* `for i in range(n):` whether the loop body runs for i = k
more_tries(k) == k < n

\* math.e ** (i / 4) rounded down, for i = 0, 1, 2, ...
ExpQuarter == <<1, 1, 1, 2, 2, 3, 4, 5, 7, 9, 12, 15, 20>>

\* `timeout = max(math.e ** (i / 4), 15)`
timeout(k) ==
    LET e == IF k + 1 \in DOMAIN ExpQuarter THEN ExpQuarter[k + 1]
             ELSE ExpQuarter[Len(ExpQuarter)]
    IN IF e > 15 THEN e ELSE 15

\* entries of the log net; a sleep is logged with its duration as status
GetEvent(u, k, status) == [op |-> "get", url |-> u, i |-> k, status |-> status]
SleepEvent(u, k) == [op |-> "sleep", url |-> u, i |-> k, status |-> timeout(k)]
DownloadEvent(u) == [op |-> "download", url |-> u, i |-> 0, status |-> 0]

\* the installer process of this ensureconda() call
Self == 1

Subdirs == {"linux-64", "osx-64"}

\* f"https://api.anaconda.org/package/{channel}/conda-standalone/files"
ListingUrl == <<"https://api.anaconda.org/package/", "anaconda", "/conda-standalone/files">>

\* f"https://micro.mamba.pm/api/micromamba/{subdir}/latest"
MicromambaUrl(sd) == <<"https://micro.mamba.pm/api/micromamba/", sd, "/latest">>

\* `chosen` before a record is chosen
NoRecord ==
    [subdir |-> "", version |-> "0.0.0", build_number |-> 0, timestamp |-> 0,
     download_url |-> << >>]

\* the sort key of a record
Key(info) ==
    <<VersionTable[info.version], info.build_number, info.timestamp>>

\* a <= b for sort keys: tuples compare lexicographically
KeyLE(a, b) ==
    IF a[1] # b[1] THEN VersionGE(b[1], a[1])
    ELSE IF a[2] # b[2] THEN a[2] < b[2]
    ELSE a[3] <= b[3]

\* `if info.attrs.subdir == subdir: candidates.append(info)`
RECURSIVE Filtered(_, _)
Filtered(l, sd) ==
    IF l = << >> THEN << >>
    ELSE (IF Head(l).subdir = sd THEN <<Head(l)>> ELSE << >>) \o Filtered(Tail(l), sd)

\* list.sort(key=...): stable, ascending; x goes after the elements whose key
\* is not greater than its own
RECURSIVE Insert(_, _)
Insert(sorted, x) ==
    IF sorted = << >> THEN <<x>>
    ELSE LET last == sorted[Len(sorted)] IN
         IF KeyLE(Key(last), Key(x)) THEN Append(sorted, x)
         ELSE Append(Insert(SubSeq(sorted, 1, Len(sorted) - 1), x), last)

RECURSIVE Sorted(_)
Sorted(l) ==
    IF l = << >> THEN << >>
    ELSE Insert(Sorted(SubSeq(l, 1, Len(l) - 1)), l[Len(l)])

\* candidates built without the subdir filter
candidates_unfiltered(l, sd) == Sorted(l)

\* `candidates` after the loop over resp.json() and candidates.sort(...)
candidates(l, sd) == Sorted(Filtered(l, sd))

\* pick that takes the first element of the sorted list
pick_first(c) == c[1]

\* `chosen = candidates[-1]`
pick(c) == c[Len(c)]

\* `url = "https:" + chosen.download_url`
package_url(info) == <<"https:">> \o info.download_url

\* the installable kind whose installer ensureconda() is in
installing == IF pc = "install_micromamba" THEN "micromamba" ELSE "conda_exe"

\* no installer is running
NetIdle ==
    /\ fpc = "idle"
    /\ url = << >>
    /\ attempt = 0
    /\ net = << >>
    /\ listing = << >>
    /\ subdir = "linux-64"
    /\ chosen = NoRecord

\* InstallerRaises with the installer's exception caught and None returned
InstallerRaises_swallowed(exc) ==
    /\ installs' = Append(installs, InstallEntry(installing, exc))
    /\ pc' = "return_none"
    /\ UNCHANGED <<error, exit_code>>
    /\ fpc' = "idle"

\* an exception leaves the installer and, uncaught, ensureconda()
InstallerRaises(exc) ==
    /\ installs' = Append(installs, InstallEntry(installing, exc))
    /\ Uncaught(exc)
    /\ fpc' = "idle"

\* entering install_micromamba() / install_conda_exe(): the URL is built and
\* request_url_with_retry(url) starts; the destination of this installer is
\* absent or holds what an earlier installation left
CallInstaller ==
    /\ pc \in {"install_micromamba", "install_conda_exe"}
    /\ fpc = "idle"
    /\ fpc' = "get"
    /\ url' = IF pc = "install_micromamba" THEN MicromambaUrl(subdir) ELSE ListingUrl
    /\ attempt' = 0
    /\ listing' = << >>
    /\ chosen' = NoRecord
    /\ lock' = 0
    /\ acquired' = << >>
    /\ ipc' = [p \in Procs |-> "idle"]
    /\ temp' = [p \in Procs |-> NoFile]
    /\ target' \in {NoFile, OldFile}
    /\ UNCHANGED <<net, subdir, is_windows>>
    /\ UNCHANGED apiVars

\* the files a registry listing may name: file_info of resp.json(), the
\* download_url of the k-th file being its own
RecordCores ==
    [subdir : Subdirs, version : {"4.8.2", "23.5.0"}, build_number : {0, 1},
     timestamp : {50, 100}]

FileRecord(core, k) ==
    [subdir |-> core.subdir, version |-> core.version,
     build_number |-> core.build_number, timestamp |-> core.timestamp,
     download_url |-> <<"//api.anaconda.org/download/", ToString(k)>>]

\* the listing that names the files `cores`, in this order
Listing(cores) == [k \in DOMAIN cores |-> FileRecord(cores[k], k)]

\* a listing with an older build of the host platform, a newer one, and a
\* file of another platform that is newer still
MixedListing ==
    <<FileRecord([subdir |-> "linux-64", version |-> "4.8.2", build_number |-> 1,
                  timestamp |-> 100], 1),
      FileRecord([subdir |-> "linux-64", version |-> "23.5.0", build_number |-> 0,
                  timestamp |-> 50], 2),
      FileRecord([subdir |-> "osx-64", version |-> "23.5.0", build_number |-> 0,
                  timestamp |-> 100], 3)>>

\* the listings the registry answers with when the whole installer is run: an
\* empty one, one with files of another platform only, and MixedListing
ServedListings ==
    {<< >>,
     <<FileRecord([subdir |-> "osx-64", version |-> "23.5.0", build_number |-> 0,
                   timestamp |-> 100], 1)>>,
     MixedListing}

\* `resp = requests.get(url, allow_redirects=True)` with raise_for_status()
\* and the except clause: one pass through the body of the retry loop
Get ==
    /\ fpc = "get"
    /\ \E status \in Statuses :
         /\ net' = Append(net, GetEvent(url, attempt, status))
         /\ IF ~raise_for_status(status)
            THEN /\ fpc' = "fetched"
                 /\ listing' \in IF url = ListingUrl THEN ServedListings ELSE {<< >>}
                 /\ UNCHANGED apiVars
            ELSE IF is_transient(status)
            THEN /\ fpc' = "sleep"
                 /\ UNCHANGED listing
                 /\ UNCHANGED apiVars
            ELSE /\ InstallerRaises("HTTPError")
                 /\ UNCHANGED listing
                 /\ UNCHANGED <<executables, cli, cli_flags, args, pass, idx,
                                maybe_exe, probes, result>>
    /\ UNCHANGED <<url, attempt, subdir, chosen>>
    /\ UNCHANGED instVars

\* `time.sleep(timeout)`, then the next value of i, or the end of the loop
\* and `raise TimeoutError`
Sleep ==
    /\ fpc = "sleep"
    /\ net' = Append(net, SleepEvent(url, attempt))
    /\ attempt' = attempt + 1
    /\ IF more_tries(attempt + 1)
       THEN /\ fpc' = "get"
            /\ UNCHANGED apiVars
       ELSE /\ InstallerRaises("TimeoutError")
            /\ UNCHANGED <<executables, cli, cli_flags, args, pass, idx,
                           maybe_exe, probes, result>>
    /\ UNCHANGED <<url, listing, subdir, chosen>>
    /\ UNCHANGED instVars

\* extract_files_from_tar_bz2: tf.extractfile(filename) on the tarball
ExtractMember ==
    /\ fpc = "fetched" /\ pc = "install_micromamba"
    /\ \E member \in Members :
         IF member = "file"
         THEN /\ fpc' = "write"
              /\ UNCHANGED apiVars
         ELSE /\ InstallerRaises(IF member = "absent" THEN "KeyError" ELSE "RuntimeError")
              /\ UNCHANGED <<executables, cli, cli_flags, args, pass, idx,
                             maybe_exe, probes, result>>
    /\ UNCHANGED <<url, attempt, net, listing, subdir, chosen>>
    /\ UNCHANGED instVars

\* install_conda_exe after the listing is fetched: filter, sort,
\* `if len(candidates) == 0: raise RuntimeError`, choose, build the URL
SelectRecord ==
    /\ fpc = "fetched" /\ pc = "install_conda_exe"
    /\ LET c == candidates(listing, subdir) IN
         IF Len(c) = 0
         THEN /\ InstallerRaises("RuntimeError")
              /\ UNCHANGED <<url, chosen>>
              /\ UNCHANGED <<executables, cli, cli_flags, args, pass, idx,
                             maybe_exe, probes, result>>
         ELSE /\ chosen' = pick(c)
              /\ url' = package_url(pick(c))
              /\ fpc' = "stream"
              /\ UNCHANGED apiVars
    /\ UNCHANGED <<attempt, net, listing, subdir>>
    /\ UNCHANGED instVars

\* what conda_reader_for_url(url) and the loop over the package give
StreamOutcomes == {"file", "absent", "HTTPError"}

\* stream_conda_executable(url): the package is read from the URL and
\* searched for standalone_conda/conda.exe
StreamPackage ==
    /\ fpc = "stream"
    /\ net' = Append(net, DownloadEvent(url))
    /\ \E outcome \in StreamOutcomes :
         IF outcome = "file"
         THEN /\ fpc' = "write"
              /\ UNCHANGED apiVars
         ELSE /\ InstallerRaises(IF outcome = "absent" THEN "RuntimeError" ELSE "HTTPError")
              /\ UNCHANGED <<executables, cli, cli_flags, args, pass, idx,
                             maybe_exe, probes, result>>
    /\ UNCHANGED <<url, attempt, listing, subdir, chosen>>
    /\ UNCHANGED instVars

\* write_executable_from_file_object: new_executable run by this process
WriteStep ==
    /\ fpc = "write"
    /\ ProcStep(Self)

\* new_executable raised: the exception leaves the installer
WriteRaises ==
    /\ fpc = "write" /\ ipc[Self] = "failed"
    /\ InstallerRaises("OSError")
    /\ UNCHANGED <<executables, cli, cli_flags, args, pass, idx, maybe_exe,
                   probes, result>>
    /\ UNCHANGED <<url, attempt, net, listing, subdir, chosen>>
    /\ UNCHANGED instVars

\* `return target_path`: the installer returns the path of the new executable
InstallerReturns ==
    /\ fpc = "write" /\ ipc[Self] = "done"
    /\ \E exe \in Exes : maybe_exe' = exe
    /\ installs' = Append(installs, InstallEntry(installing, "none"))
    /\ pc' = IF pc = "install_micromamba" THEN "recheck_micromamba"
             ELSE "recheck_conda_exe"
    /\ fpc' = "idle"
    /\ UNCHANGED <<executables, cli, cli_flags, args, pass, idx, probes, result,
                   error, exit_code>>
    /\ UNCHANGED <<url, attempt, net, listing, subdir, chosen>>
    /\ UNCHANGED instVars

----------------------------------------------------------------------------
(* One run of ensureconda(), called directly or through the CLI *)

Minimums(v) == {NoVersion, VersionTable[v]}

Options ==
    [mamba : BOOLEAN, micromamba : BOOLEAN, conda : BOOLEAN, conda_exe : BOOLEAN,
     no_install : BOOLEAN,
     min_conda_version : Minimums("4.8.2"),
     min_mamba_version : Minimums("2.0.0")]

\* the numbers of candidates per kind: none for a kind that is not enabled
\* (its resolver is never called), MaxExes at most in all
Counts(flags) ==
    {c \in [Kinds -> 0..MaxExes] :
        /\ c["mamba"] + c["micromamba"] + c["conda"] + c["conda_exe"] <= MaxExes
        /\ \A k \in Kinds : ~flags[k] => c[k] = 0}

Init ==
    /\ cli \in BOOLEAN
    /\ cli_flags \in Options
    \* click always passes a minimum (the options have defaults)
    /\ cli => /\ cli_flags.min_conda_version # NoVersion
              /\ cli_flags.min_mamba_version # NoVersion
    /\ args = IF cli THEN FirstPassArgs(cli_flags) ELSE cli_flags
    /\ \E cnt \in Counts(cli_flags) :
         \E m \in [1..cnt["mamba"] -> Candidates],
            u \in [1..cnt["micromamba"] -> Candidates],
            c \in [1..cnt["conda"] -> Candidates],
            s \in [1..cnt["conda_exe"] -> Candidates] :
            executables = [k \in Kinds |->
                             CASE k = "mamba" -> m
                               [] k = "micromamba" -> u
                               [] k = "conda" -> c
                               [] OTHER -> s]
    /\ pass = 1
    /\ pc = Reach(args, executables, "mamba", 1)[1]
    /\ idx = Reach(args, executables, "mamba", 1)[2]
    /\ maybe_exe = NoBinary
    /\ probes = << >>
    /\ installs = << >>
    /\ result = NoExe
    /\ error = "none"
    /\ exit_code = -1
    /\ InstIdle
    /\ NetIdle

Next ==
    \/ CheckCandidate
    \/ InstallMicromamba
    \/ RecheckInstalled
    \/ InstallCondaExe
    \/ ReturnNone
    \/ CliSecondPass
    \/ CliExit

Spec == Init /\ [][Next]_vars

----------------------------------------------------------------------------
(* Several installers writing the same destination *)

ApiIdle ==
    /\ cli = FALSE
    /\ cli_flags = [mamba |-> FALSE, micromamba |-> FALSE, conda |-> FALSE,
                    conda_exe |-> FALSE, no_install |-> TRUE,
                    min_conda_version |-> NoVersion,
                    min_mamba_version |-> NoVersion]
    /\ args = cli_flags
    /\ executables = [k \in Kinds |-> << >>]
    /\ pass = 1
    /\ pc = "returned"
    /\ idx = 0
    /\ maybe_exe = NoBinary
    /\ probes = << >>
    /\ installs = << >>
    /\ result = NoExe
    /\ error = "none"
    /\ exit_code = -1

InstInit ==
    /\ ApiIdle
    /\ lock = 0
    /\ acquired = << >>
    /\ ipc = [p \in Procs |-> "idle"]
    /\ temp = [p \in Procs |-> NoFile]
    /\ is_windows \in BOOLEAN
    /\ target \in {NoFile, OldFile}
    /\ NetIdle

InstNext ==
    \/ \E p \in Procs : Acquire(p)
    \/ \E p \in Procs : OpenTemp(p)
    \/ \E p \in Procs : WriteChunk(p)
    \/ \E p \in Procs : Raise(p)
    \/ \E p \in Procs : CloseTemp(p)
    \/ \E p \in Procs : Chmod(p)
    \/ \E p \in Procs : RenameFails(p)
    \/ \E p \in Procs : Rename(p)
    \/ \E p \in Procs : Release(p)

InstSpec == InstInit /\ [][InstNext]_vars

\* every process that can take a step eventually takes one: the operating
\* system schedules each process, and a blocked FileLock keeps polling
InstLive == InstSpec /\ \A p \in Procs : WF_vars(ProcStep(p))

----------------------------------------------------------------------------
(* One run of ensureconda() with the installers taken step by step *)

\* a candidate that prints an old and one that prints a recent conda version
OldConda == [path |-> TRUE, rc |-> 0, out |-> OutCondaOld]
NewConda == [path |-> TRUE, rc |-> 0, out |-> OutMambaV1]

NetInit ==
    /\ cli = FALSE
    /\ cli_flags \in [mamba : {FALSE}, micromamba : BOOLEAN, conda : BOOLEAN,
                      conda_exe : BOOLEAN, no_install : {FALSE},
                      min_conda_version : Minimums("4.8.2"),
                      min_mamba_version : Minimums("2.0.0")]
    /\ args = cli_flags
    /\ \E c \in {<< >>, <<OldConda>>, <<NewConda>>} :
         executables = [k \in Kinds |-> IF k = "conda" /\ args.conda THEN c ELSE << >>]
    /\ pass = 1
    /\ pc = Reach(args, executables, "mamba", 1)[1]
    /\ idx = Reach(args, executables, "mamba", 1)[2]
    /\ maybe_exe = NoBinary
    /\ probes = << >>
    /\ installs = << >>
    /\ result = NoExe
    /\ error = "none"
    /\ exit_code = -1
    /\ lock = 0
    /\ acquired = << >>
    /\ ipc = [p \in Procs |-> "idle"]
    /\ temp = [p \in Procs |-> NoFile]
    /\ is_windows \in BOOLEAN
    /\ target = NoFile
    /\ NetIdle

NetNext ==
    \/ CheckCandidate
    \/ CallInstaller
    \/ Get
    \/ Sleep
    \/ ExtractMember
    \/ SelectRecord
    \/ StreamPackage
    \/ WriteStep
    \/ WriteRaises
    \/ InstallerReturns
    \/ RecheckInstalled
    \/ ReturnNone

NetSpec == NetInit /\ [][NetNext]_vars

----------------------------------------------------------------------------
(* install_conda_exe() choosing a file, for every listing *)

\* the state in which request_url_with_retry has just returned the listing
SelInit ==
    /\ cli = FALSE
    /\ cli_flags = [mamba |-> FALSE, micromamba |-> FALSE, conda |-> FALSE,
                    conda_exe |-> TRUE, no_install |-> FALSE,
                    min_conda_version |-> NoVersion,
                    min_mamba_version |-> NoVersion]
    /\ args = cli_flags
    /\ executables = [k \in Kinds |-> << >>]
    /\ pass = 1
    /\ pc = "install_conda_exe"
    /\ idx = 0
    /\ maybe_exe = NoBinary
    /\ probes = << >>
    /\ installs = << >>
    /\ result = NoExe
    /\ error = "none"
    /\ exit_code = -1
    /\ lock = 0
    /\ acquired = << >>
    /\ ipc = [p \in Procs |-> "idle"]
    /\ temp = [p \in Procs |-> NoFile]
    /\ is_windows = FALSE
    /\ target = NoFile
    /\ fpc = "fetched"
    /\ url = ListingUrl
    /\ attempt = 0
    /\ net = <<GetEvent(ListingUrl, 0, 200)>>
    /\ \E len \in 0..MaxRecords :
         \E cores \in [1..len -> RecordCores] : listing = Listing(cores)
    /\ subdir \in Subdirs
    /\ chosen = NoRecord

SelNext == SelectRecord

SelSpec == SelInit /\ [][SelNext]_vars

----------------------------------------------------------------------------
(* Vocabulary of the properties *)

\* the ensureconda() call, or the CLI process driving it, has ended
PassOver == pc \in {"returned", "raised", "exited"}

\* the candidates of one call in priority order; idx 0 stands for the binary
\* the installer of the kind would write
KindPaths(ex, kind) == [i \in 1..Len(ex[kind]) |-> Path(kind, i)]

PriorityList(a, ex) ==
    (IF a.mamba THEN KindPaths(ex, "mamba") ELSE << >>)
    \o (IF a.micromamba THEN KindPaths(ex, "micromamba") ELSE << >>)
    \o (IF a.micromamba /\ ~a.no_install THEN <<Path("micromamba", 0)>> ELSE << >>)
    \o (IF a.conda THEN KindPaths(ex, "conda") ELSE << >>)
    \o (IF a.conda_exe THEN KindPaths(ex, "conda_exe") ELSE << >>)
    \o (IF a.conda_exe /\ ~a.no_install THEN <<Path("conda_exe", 0)>> ELSE << >>)

\* an executable of `kind` meets the minimum configured for the kind: none is
\* configured, or its --version output parses to a version >= the minimum
MeetsMinimum(a, kind, exe) ==
    \/ min_version(a, kind) = NoVersion
    \/ LET v == version_fn(kind, exe) IN
       v.exc = "none" /\ VersionGE(v.version, min_version(a, kind))

\* the log entries of the current call about path q
EntriesOf(q) ==
    {i \in DOMAIN probes :
        probes[i].pass = pass /\ probes[i].kind = q.kind /\ probes[i].idx = q.idx}

\* path q is a candidate that satisfies its constraint: a resolver candidate
\* that meets the minimum, or a binary installed in this call that does
Satisfying(a, ex, q) ==
    IF q.idx > 0
    THEN ex[q.kind][q.idx].path /\ MeetsMinimum(a, q.kind, ex[q.kind][q.idx])
    ELSE /\ \E i \in DOMAIN installs :
              installs[i].pass = pass /\ installs[i].kind = q.kind
                /\ installs[i].exc = "none"
         /\ \/ min_version(a, q.kind) = NoVersion
            \/ \E i \in EntriesOf(q) :
                  probes[i].exc = "none"
                    /\ VersionGE(probes[i].version, min_version(a, q.kind))

\* position of the first satisfying candidate of the list (0: there is none)
FirstSatisfying(a, ex) ==
    LET l == PriorityList(a, ex)
        sat == {j \in DOMAIN l : Satisfying(a, ex, l[j])}
    IN IF sat = {} THEN 0 ELSE CHOOSE j \in sat : \A k \in sat : j <= k

\* some resolver candidate of an enabled kind satisfies its constraint
ExistingSatisfying(a, ex) ==
    \E kind \in Kinds : a[kind] /\ \E i \in DOMAIN ex[kind] :
        Satisfying(a, ex, Path(kind, i))

----------------------------------------------------------------------------
(* Properties of ensureconda() *)

\* C1: a path returned by ensureconda() either has no minimum configured for
\* its kind, or was probed in that same call, every probe of it in that call
\* succeeding with a version >= the minimum of its kind; a candidate probed
\* below the minimum is never returned.
C1_ReturnedSatisfies ==
    result # NoExe =>
        LET minv == min_version(args, result.kind) IN
        \/ minv = NoVersion
        \/ /\ EntriesOf(result) # {}
           /\ \A i \in EntriesOf(result) :
                 /\ probes[i].exc = "none"
                 /\ probes[i].runs >= 1
                 /\ VersionGE(probes[i].version, minv)

\* C1 happens: a freshly installed binary is returned under a minimum, after a
\* resolver candidate with a real version below the minimum was rejected
C1_Witness ==
    /\ pc = "returned"
    /\ result # NoExe /\ result.idx = 0
    /\ min_version(args, result.kind) # NoVersion
    /\ \E i \in DOMAIN probes :
          /\ probes[i].pass = pass /\ probes[i].idx > 0
          /\ probes[i].exc = "none" /\ ~probes[i].met
          /\ probes[i].version # ZeroVersion

\* C6: a call with no_install=True never invokes install_micromamba or
\* install_conda_exe: no installer invocation is ever made by a call whose
\* no_install is set, and during such a call control is never at an installer
\* or at the re-check of an installed binary, and no binary was written.
C6_NoInstallNeverInstalls ==
    /\ \A i \in DOMAIN installs : ~installs[i].no_install
    /\ args.no_install =>
          /\ pc \notin {"install_micromamba", "recheck_micromamba",
                        "install_conda_exe", "recheck_conda_exe"}
          /\ \A i \in DOMAIN installs : installs[i].pass # pass
          /\ maybe_exe = NoBinary

\* C6 happens: a direct call with no_install=True and both installable kinds
\* enabled rejected a candidate and returned None without installing
C6_Witness ==
    /\ ~cli /\ args.no_install /\ args.micromamba /\ args.conda_exe
    /\ pc = "returned" /\ result = NoExe
    /\ probes # << >>
    /\ installs = << >>

\* the run was ended by an exception raised inside an installer
InstallerFailed ==
    /\ pc = "raised"
    /\ installs # << >>
    /\ installs[Len(installs)].exc # "none"
    /\ installs[Len(installs)].pass = pass
    /\ error = installs[Len(installs)].exc

\* C5: in one pass the result is the first satisfying candidate in the fixed
\* priority order (mamba, micromamba, installed micromamba, conda,
\* conda-standalone, installed conda-standalone), nothing being probed or
\* installed after it; if none satisfies the result is None.  (Stated for the
\* passes in which no installer failed.)
C5_FirstSatisfyingIsResult ==
    pc \in {"returned", "raised"} /\ ~InstallerFailed =>
        LET l == PriorityList(args, executables)
            j == FirstSatisfying(args, executables)
        IN /\ j # 0 => result = l[j]
           /\ j = 0 /\ pc = "returned" => result = NoExe
           /\ \A k \in DOMAIN l : j # 0 /\ k > j => EntriesOf(l[k]) = {}

\* Checked alongside C5: a pass that returns does return the first satisfying
\* candidate of the priority order, every earlier candidate that is a path
\* having been evaluated and none after it.
C5_OrderWhenReturned ==
    pc = "returned" =>
        LET l == PriorityList(args, executables)
            j == FirstSatisfying(args, executables)
        IN /\ result = IF j = 0 THEN NoExe ELSE l[j]
           /\ \A k \in DOMAIN l :
                 /\ j # 0 /\ k > j => EntriesOf(l[k]) = {}
                 /\ (j = 0 \/ k < j) /\ l[k].idx > 0
                       /\ executables[l[k].kind][l[k].idx].path
                       /\ min_version(args, l[k].kind) # NoVersion
                    => EntriesOf(l[k]) # {}

\* C7: the CLI makes the install-permitted call only after the install-disabled
\* call returned nothing and --no-install was not given; whenever an enabled
\* kind has a resolver candidate satisfying its constraint, the CLI ends by
\* returning an existing path (exit status 0) without having run an installer.
C7_CliReturnsExisting ==
    cli =>
        /\ installs # << >> => pass = 2 /\ ~cli_flags.no_install
        /\ pc \in {"exited", "raised"}
              /\ ExistingSatisfying(FirstPassArgs(cli_flags), executables)
           => /\ exit_code = 0
              /\ result # NoExe /\ result.idx > 0
              /\ installs = << >>

\* Checked alongside C7: the second call is made only after a first call that
\* returned None, never with --no-install, and no installer ever runs when a
\* resolver candidate of an enabled kind satisfies its constraint.
C7_NoInstallWhenExisting ==
    cli =>
        /\ pass = 2 => ~cli_flags.no_install /\ ~args.no_install
        /\ pass = 1 => args.no_install
        /\ installs # << >> => pass = 2
        /\ ExistingSatisfying(FirstPassArgs(cli_flags), executables)
              => installs = << >> /\ pass = 1

\* C8: the CLI exits 0 when an executable is found, 1 when resolution runs to
\* completion and finds nothing, and 2 when an installer hits a fatal
\* condition, which is never reported with the exit status of "not found".
C8_ExitCodes ==
    cli =>
        /\ pc = "exited" /\ result # NoExe => exit_code = 0
        /\ pc = "exited" /\ result = NoExe => exit_code = 1
        /\ InstallerFailed => exit_code = 2

\* C9: a probe that fails at the subprocess level makes ensureconda() skip that
\* candidate instead of aborting, and a later candidate that satisfies its
\* constraint is still returned.
C9_FailedProbeSkipped ==
    \A i \in DOMAIN probes :
        probes[i].pass = pass /\ probes[i].exc = "CalledProcessError" /\ PassOver
           /\ FirstSatisfying(args, executables) # 0
        => /\ error # "CalledProcessError"
           /\ result = PriorityList(args, executables)[FirstSatisfying(args, executables)]

\* the --version output of a candidate of `kind` that exited with status 0 is
\* malformed or absent: it is empty, or has no line the prober of the kind
\* reads, or the trailing token of that line is not a version
Malformed(kind, exe) ==
    /\ exe.path /\ exe.rc = 0
    /\ LET named == FirstLineWith(exe.out, IF kind = "mamba" THEN "mamba" ELSE "conda")
           no_first == exe.out = << >> \/ ~IsValidVersion(LastToken(exe.out[1]))
       IN CASE kind = "micromamba" -> no_first
            [] kind = "mamba" ->
                 IF named # 0 THEN ~IsValidVersion(LastToken(exe.out[named]))
                 ELSE no_first
            [] OTHER ->
                 named = 0 \/ ~IsValidVersion(LastToken(exe.out[named]))

\* C10: a candidate with malformed or absent --version output is never fatal:
\* its probe yields the sentinel 0.0.0 without raising, it fails the minimum,
\* and the search goes on.
C10_MalformedYieldsSentinel ==
    /\ error # "InvalidVersion"
    /\ \A i \in DOMAIN probes :
          probes[i].idx > 0 /\ probes[i].runs > 0
             /\ Malformed(probes[i].kind, executables[probes[i].kind][probes[i].idx])
          => /\ probes[i].exc = "none"
             /\ probes[i].version = ZeroVersion
             /\ ~probes[i].met

\* Checked alongside C10: empty output, and conda output without a line that
\* starts with "conda", do yield the sentinel and the candidate is skipped.
C10_SentinelWhenNoLine ==
    \A i \in DOMAIN probes :
        LET exe == executables[probes[i].kind][probes[i].idx] IN
        probes[i].idx > 0 /\ probes[i].runs > 0 /\ exe.rc = 0
           /\ \/ exe.out = << >>
              \/ probes[i].kind \in {"conda", "conda_exe"}
                    /\ FirstLineWith(exe.out, "conda") = 0
        => /\ probes[i].exc = "none"
           /\ probes[i].version = ZeroVersion
           /\ ~probes[i].met

\* the tool kinds in the order ensureconda() goes through them
KindOrder == <<"mamba", "micromamba", "conda", "conda_exe">>

\* the least element of a non-empty set of numbers
Least(S) == CHOOSE x \in S : \A y \in S : x <= y

\* C17: with no minimum configured for a kind's family the constraint check is
\* true for every candidate and starts no `--version` subprocess; hence, when
\* the first enabled kind has no minimum and an existing candidate, the first
\* existing candidate of that kind is returned, unprobed, and nothing is
\* installed.
C17_NoMinimumNoProbe ==
    /\ \A i \in DOMAIN probes :
          min_version(args, probes[i].kind) = NoVersion
          => probes[i].exc = "none" /\ probes[i].met /\ probes[i].runs = 0
    /\ LET en == {j \in DOMAIN KindOrder : args[KindOrder[j]]} IN
       en # {} =>
          LET k == KindOrder[Least(en)]
              ex == {i \in DOMAIN executables[k] : executables[k][i].path}
          IN min_version(args, k) = NoVersion /\ ex # {} /\ PassOver
             => /\ pc \in {"returned", "exited"}
                /\ result = Path(k, Least(ex))
                /\ \A i \in DOMAIN probes : probes[i].runs = 0
                /\ installs = << >>

\* C17 happens: no minimum for mamba, the mamba resolver yields None and then
\* an executable that would fail its probe; it is returned without a probe
C17_Witness ==
    /\ args.mamba /\ args.min_mamba_version = NoVersion
    /\ Len(executables["mamba"]) = 2
    /\ ~executables["mamba"][1].path
    /\ executables["mamba"][2].path /\ executables["mamba"][2].rc # 0
    /\ pc = "returned" /\ result = Path("mamba", 2)
    /\ Len(probes) = 1 /\ probes[1].runs = 0

\* C18: within one constraint evaluation the candidate is executed with
\* --version at most once, whatever the kind and the output format, the mamba
\* candidate handled by the micromamba-style fallback included.
C18_ProbedAtMostOnce ==
    \A i \in DOMAIN probes : probes[i].runs <= 1

\* Checked alongside C18: only a mamba candidate whose output has no line
\* starting with "mamba" is executed twice; every other evaluation starts at
\* most one subprocess.
C18_OnceExceptMambaFallback ==
    \A i \in DOMAIN probes :
        /\ probes[i].runs <= 2
        /\ probes[i].runs = 2 =>
              /\ probes[i].kind = "mamba"
              /\ probes[i].idx > 0
              /\ FirstLineWith(executables["mamba"][probes[i].idx].out, "mamba") = 0

\* the installer invocations of the current pass for `kind`
InstallsOf(kind) ==
    {j \in DOMAIN installs : installs[j].pass = pass /\ installs[j].kind = kind}

\* path q was looked at in the current pass and not accepted: the resolver
\* yielded None, or its constraint evaluation was not true
Rejected(q) ==
    \/ q.idx > 0 /\ ~executables[q.kind][q.idx].path
    \/ \E i \in EntriesOf(q) : ~probes[i].met

\* the position of path q in the priority list of the current pass
PositionOf(q) ==
    LET l == PriorityList(args, executables)
    IN CHOOSE j \in DOMAIN l : l[j] = q

\* a re-check did not satisfy the constraint: its probe returned a version
\* below the minimum or, if raising counts, raised
NotSatisfied(e, raising_counts) ==
    IF raising_counts THEN ~(e.exc = "none" /\ e.met) ELSE e.exc = "none" /\ ~e.met

\* the install-and-recheck pattern of the installable kind K
InstallThenRecheck(K, raising_counts) ==
    /\ Cardinality(InstallsOf(K)) <= 1
    /\ InstallsOf(K) # {} =>
          /\ args[K] /\ ~args.no_install
          /\ \A j \in 1..(PositionOf(Path(K, 0)) - 1) :
                Rejected(PriorityList(args, executables)[j])
    /\ (\E j \in InstallsOf(K) : installs[j].exc = "none")
          /\ pc \notin {"recheck_micromamba", "recheck_conda_exe"}
       => EntriesOf(Path(K, 0)) # {}
    /\ \A i \in EntriesOf(Path(K, 0)) :
          /\ NotSatisfied(probes[i], raising_counts) =>
                /\ result # Path(K, 0)
                /\ pc = "raised" /\ ~InstallerFailed => i # Len(probes)
          /\ probes[i].exc = "none" /\ probes[i].met => result = Path(K, 0)

\* C19: in a pass with installation permitted the installer of an installable
\* kind runs at most once, only if the kind is enabled and only after every
\* candidate of that kind and of the earlier kinds was rejected; the installed
\* path is re-checked and, if it does not satisfy the constraint, it is not
\* returned and the pass goes on to the next kind instead of failing or
\* installing again.
C19_InstallOnceAndRecheck ==
    \A K \in {"micromamba", "conda_exe"} : InstallThenRecheck(K, TRUE)

\* Checked alongside C19: the same, for re-checks whose probe returned a
\* version below the minimum (a re-check whose probe raised is left aside).
C19_RecheckBelowMinimum ==
    \A K \in {"micromamba", "conda_exe"} : InstallThenRecheck(K, FALSE)

----------------------------------------------------------------------------
(* Properties of request_url_with_retry() *)

\* the URLs fetched through request_url_with_retry
FetchUrls == {ListingUrl, MicromambaUrl(subdir)}

\* the requests and sleeps of the call request_url_with_retry(u), in order
Trace(u) ==
    LET OfCall(e) == e.op \in {"get", "sleep"} /\ e.url = u
    IN SelectSeq(net, OfCall)

\* the number of requests in a trace that were answered with `status`
Answered(t, status) ==
    Cardinality({j \in DOMAIN t : t[j].op = "get" /\ t[j].status = status})

\* the number of requests in a trace
Attempts(t) == Cardinality({j \in DOMAIN t : t[j].op = "get"})

\* trace t is that of the latest call: no request or sleep of another call
\* was made after its last event
JustNow(t) ==
    LET OfAnyCall(e) == e.op \in {"get", "sleep"}
        all == SelectSeq(net, OfAnyCall)
    IN t # << >> /\ all[Len(all)] = t[Len(t)]

\* C11: when an endpoint answers 500 to the first k attempts (0 <= k < 10) and
\* then succeeds, request_url_with_retry returns that response after exactly
\* k+1 attempts, having slept once between consecutive attempts: a 500 answer
\* is followed by a sleep and, while tries remain, by the next attempt, and the
\* call has returned as soon as the successful answer arrives.
C11_RetryThenReturn ==
    \A u \in FetchUrls :
        LET t == Trace(u)
            k == Answered(t, 500)
        IN /\ JustNow(t) /\ t[Len(t)].op = "get" /\ t[Len(t)].status = 500
                => fpc = "sleep" /\ error = "none"
           /\ JustNow(t) /\ t[Len(t)].op = "sleep" /\ t[Len(t)].i + 1 < n
                => fpc = "get" /\ attempt = t[Len(t)].i + 1 /\ error = "none"
           /\ t # << >> /\ t[Len(t)].op = "get" /\ t[Len(t)].status = 200
                => /\ k < n
                   /\ Attempts(t) = k + 1
                   /\ Len(t) = 2 * k + 1
                   /\ \A j \in 1..k : /\ t[2 * j - 1] = GetEvent(u, j - 1, 500)
                                      /\ t[2 * j] = SleepEvent(u, j - 1)
                   /\ t[Len(t)] = GetEvent(u, k, 200)
                   /\ JustNow(t) =>
                         /\ fpc # "sleep" /\ (fpc = "get" => url # u)
                         /\ error # "TimeoutError"
                         /\ error = "HTTPError" => net[Len(net)].op = "download"
                         /\ u = ListingUrl => listing \in ServedListings

\* C11 happens: the answers were 500, 500, 200 and the call returned the third
C11_Witness ==
    \E u \in FetchUrls :
        /\ Attempts(Trace(u)) = 3 /\ Answered(Trace(u), 500) = 2
        /\ Answered(Trace(u), 200) = 1
        /\ JustNow(Trace(u)) /\ fpc = "fetched"

\* C12: an HTTP error answer with a status other than 500 propagates at once,
\* however many 500 answers preceded it: it is the last event of the call (no
\* sleep and no further attempt follow it) and the call ended with HTTPError.
C12_PermanentErrorPropagates ==
    \A u \in FetchUrls :
        LET t == Trace(u) IN
        \A j \in DOMAIN t :
            t[j].op = "get" /\ raise_for_status(t[j].status) /\ t[j].status # 500
            => /\ j = Len(t)
               /\ net[Len(net)] = t[j]
               /\ pc = "raised" /\ error = "HTTPError" /\ fpc = "idle"
               /\ Attempts(t) = Answered(t, 500) + 1

\* C12 happens: 503 was answered after two 500 answers and ended the call
C12_Witness ==
    \E u \in FetchUrls :
        /\ Answered(Trace(u), 500) = 2 /\ Answered(Trace(u), 503) = 1
        /\ error = "HTTPError"

\* C13: request_url_with_retry makes at most 10 attempts whatever the answers,
\* and when all 10 were answered with 500 it neither returns nor tries again:
\* the step after the tenth answer's sleep raises TimeoutError.
C13_AtMostTenAttempts ==
    /\ [](\A u \in FetchUrls :
            /\ Attempts(Trace(u)) <= n
            /\ Answered(Trace(u), 500) = n
                 => \/ fpc = "sleep" /\ attempt = n - 1 /\ error = "none"
                    \/ pc = "raised" /\ error = "TimeoutError" /\ fpc = "idle")
    /\ [][fpc = "sleep" /\ attempt = n - 1
            => pc' = "raised" /\ error' = "TimeoutError" /\ result' = result]_vars

\* C13 happens: ten 500 answers, then TimeoutError
C13_Witness ==
    \E u \in FetchUrls :
        /\ Answered(Trace(u), 500) = n
        /\ pc = "raised" /\ error = "TimeoutError"

----------------------------------------------------------------------------
(* Properties of install_conda_exe() *)

\* r1 <= r2 in the lexicographic order on (parsed version, build number,
\* timestamp)
LexLE(r1, r2) ==
    LET v1 == VersionTable[r1.version]
        v2 == VersionTable[r2.version]
    IN \/ v1 # v2 /\ VersionGE(v2, v1)
       \/ v1 = v2 /\ r1.build_number < r2.build_number
       \/ v1 = v2 /\ r1.build_number = r2.build_number /\ r1.timestamp <= r2.timestamp

\* the positions of the listing whose file is of the host's subdir
HostFiles == {k \in DOMAIN listing : listing[k].subdir = subdir}

\* C14: for every listing and host subdir, the file install_conda_exe chooses
\* is a file of the host subdir that is maximal among the files of that subdir
\* in the lexicographic order on (parsed version, build number, timestamp);
\* files of other subdirs have no influence (the choice is a function of the
\* host's files alone: the last of the maximal ones), and the URL downloaded
\* is "https:" followed by the chosen file's download_url.
C14_ChoosesMaximalHostRecord ==
    /\ HostFiles # {} => pc = "install_conda_exe" /\ error = "none"
    /\ fpc = "stream" =>
          /\ HostFiles # {}
          /\ \E k \in HostFiles :
                /\ chosen = listing[k]
                /\ \A j \in HostFiles : LexLE(listing[j], listing[k])
                /\ \A j \in HostFiles : LexLE(listing[k], listing[j]) => j <= k
          /\ Len(url) = 1 + Len(chosen.download_url)
          /\ url[1] = "https:"
          /\ \A j \in DOMAIN chosen.download_url : url[j + 1] = chosen.download_url[j]

\* C14 happens: of MixedListing on linux-64 the second file is chosen, the
\* newer version winning over the higher build number and timestamp of the
\* first and the third file being of another platform
C14_Witness ==
    /\ fpc = "stream"
    /\ listing = MixedListing /\ subdir = "linux-64"
    /\ chosen = MixedListing[2]
    /\ url = <<"https:", "//api.anaconda.org/download/", "2">>

\* request_url_with_retry has returned the registry listing to
\* install_conda_exe
ListingFetched ==
    LET t == Trace(ListingUrl) IN
    t # << >> /\ t[Len(t)].op = "get" /\ ~raise_for_status(t[Len(t)].status)

\* C15: when the listing has no file of the host subdir (an empty listing
\* included), install_conda_exe raises before any package download, lock
\* acquisition or file write, and ensureconda() ends with that error instead
\* of returning None.
C15_EmptyCandidateSetIsFatal ==
    ListingFetched /\ HostFiles = {} =>
        /\ \A j \in DOMAIN net : net[j].op # "download"
        /\ acquired = << >> /\ lock = 0
        /\ \A p \in Procs : ipc[p] = "idle" /\ temp[p] = NoFile
        /\ chosen = NoRecord
        /\ \/ pc = "install_conda_exe" /\ fpc = "fetched"
           \/ /\ pc = "raised" /\ error = "RuntimeError"
              /\ InstallerFailed
              /\ installs[Len(installs)].kind = "conda_exe"
              /\ result = NoExe

\* C15 happens: the listing has files, none of them of the host subdir, and
\* the run ended with the error
C15_Witness ==
    /\ ListingFetched
    /\ listing # << >> /\ HostFiles = {}
    /\ pc = "raised" /\ error = "RuntimeError"

----------------------------------------------------------------------------
(* Properties of ensureconda() with the installers taken step by step *)

\* the installer invocations that ended with an exception
FailedInstalls == {j \in DOMAIN installs : installs[j].exc # "none"}

\* C16: once an installer has failed (retries exhausted, permanent HTTP error,
\* archive member missing, no file for the host), ensureconda() is over: the
\* exception is its outcome, no path is returned, and nothing is probed,
\* fetched or installed afterwards; after a failed micromamba install neither
\* a conda candidate nor the conda-standalone step is reached.
C16_InstallerFailureAborts ==
    /\ [](\A j \in FailedInstalls :
            /\ j = Len(installs)
            /\ pc = "raised" /\ error = installs[j].exc
            /\ result = NoExe
            /\ fpc = "idle"
            /\ installs[j].kind = "micromamba" =>
                  \A k \in DOMAIN probes : probes[k].kind \notin {"conda", "conda_exe"})
    /\ [][FailedInstalls # {} =>
             UNCHANGED <<probes, installs, net, result, pc, error, ipc, target>>]_vars

\* C16 happens: install_micromamba ran out of retries while conda was enabled
\* and had a candidate satisfying its constraint, which was never probed
C16_Witness ==
    /\ pc = "raised" /\ error = "TimeoutError"
    /\ installs # << >> /\ installs[Len(installs)].kind = "micromamba"
    /\ args.conda /\ args.conda_exe
    /\ executables["conda"] = <<NewConda>>
    /\ probes = << >>

----------------------------------------------------------------------------
(* Properties of new_executable() under concurrent installers *)

\* file f holds the complete, closed payload of one installer
CompleteFile(f) ==
    /\ f.exists /\ ~f.open
    /\ \E p \in Procs \cup {0} : f.data = Payload(p)

\* C2: at every instant the destination is absent or holds the complete payload
\* of exactly one installer, and the destination changes only by the rename of
\* a fully written and closed temporary file.
C2_DestinationAlwaysComplete ==
    /\ [](target = NoFile \/ CompleteFile(target))
    /\ [][target' # target =>
             \E p \in Procs :
                /\ ipc[p] = "chmodded" /\ ipc'[p] = "renamed"
                /\ ~temp[p].open /\ temp[p].data = Payload(p)
                /\ target' = temp[p]]_vars

\* C2 happens: the destination holds the payload of one installer while
\* another installer has written only part of its temporary file
C2_Witness ==
    \E p, q \in Procs :
        /\ p # q
        /\ target.data = Payload(p)
        /\ temp[q].open
        /\ Len(temp[q].data) > 0 /\ Len(temp[q].data) < PayloadLen

\* C3: at most one process is between acquiring and releasing the lock of the
\* destination, and every write, chmod and rename happens while the process
\* doing it holds the lock.
C3_OneWriterUnderLock ==
    /\ [](/\ Cardinality({p \in Procs : ipc[p] \in InSection}) <= 1
          /\ \A p \in Procs : ipc[p] \in InSection <=> lock = p)
    /\ [][/\ \A p \in Procs : temp'[p] # temp[p] => lock = p /\ lock' = p
          /\ target' # target => lock # 0 /\ lock' = lock /\ target' = temp[lock]]_vars

\* C3 happens: a second installer is inside the locked section after the first
\* one has left it, a third party's view of the order being the lock log
C3_Witness ==
    /\ Len(acquired) >= 2
    /\ ipc[acquired[1]] \in {"done", "failed"}
    /\ ipc[acquired[2]] \in {"opened", "closed", "chmodded"}
    /\ lock = acquired[2]

\* C4: the lock is released on every exit path, so no finished or failed
\* installer holds it, and every installer eventually acquires the lock and
\* finishes, also when another installer failed inside the locked section.
C4_LockAlwaysReleased ==
    /\ [](\A p \in Procs : ipc[p] \in {"done", "failed"} => lock # p)
    /\ \A p \in Procs : (ipc[p] = "idle") ~> (ipc[p] \in {"done", "failed"})
    /\ \A p \in Procs : (ipc[p] = "raising") ~> (lock # p)

\* C4 happens: the first installer failed inside the locked section and the
\* next one acquired the lock after it and finished
C4_Witness ==
    /\ Len(acquired) >= 2
    /\ ipc[acquired[1]] = "failed"
    /\ ipc[acquired[2]] = "done"
    /\ target.data = Payload(acquired[2])

\* C20: when an installer fails inside the locked section before the rename
\* (reading the archive member or writing the temporary file raises), the
\* destination stays exactly what it was when the attempt began, absent or the
\* previous complete executable: no step of the attempt other than the rename
\* changes the destination, the failing step and everything after it skip
\* chmod and rename, and what remains is the closed temporary file.
C20_FailedInstallLeavesDestination ==
    /\ [](\A p \in Procs :
            acquired = <<p>> /\ ipc[p] \in {"locked", "opened", "raising", "failed"}
            => target \in {NoFile, OldFile})
    /\ [][\A p \in Procs :
            /\ lock = p /\ ipc'[p] # "renamed" => target' = target
            /\ ipc[p] = "opened" /\ ipc'[p] = "raising"
                  => /\ temp'[p].exists /\ ~temp'[p].open /\ ~temp'[p].x
                     /\ temp'[p].data = temp[p].data
            /\ ipc[p] = "raising"
                  => ipc'[p] \in {"raising", "failed"} /\ temp'[p] = temp[p]
            /\ ipc[p] = "failed" => ipc'[p] = "failed" /\ temp'[p] = temp[p]]_vars

\* C20 happens: the only installer that ever held the lock failed after
\* writing part of its temporary file, and the previous executable is still at
\* the destination
C20_Witness ==
    \E p \in Procs :
        /\ acquired = <<p>> /\ ipc[p] = "failed"
        /\ target = OldFile
        /\ temp[p].exists /\ ~temp[p].x
        /\ Len(temp[p].data) > 0 /\ Len(temp[p].data) < PayloadLen

====
